---- MODULE Spec2Model ----
(***************************************************************************)
(* Model of the solc binding (src/src/lib.rs): the process-wide mutex      *)
(* SOLC_MUTEX, the compile / compile_with_callback entry points, the       *)
(* call_callback trampoline and the buffers that cross the native          *)
(* boundary.  The native library (mod native, libsolc) is not part of the  *)
(* sources; its allocator, compile, free and reset are modelled from the   *)
(* specification.                                                          *)
(***************************************************************************)
EXTENDS Integers, Sequences, FiniteSets, TLC

\* ------------------------------------------------------------------ bounds
NumThreads == 2      \* host threads calling into the binding
MaxCalls == 2        \* top-level invocations started in one behaviour
MaxReads == 2        \* read requests the native compile makes per call

\* --------------------------------------------------------------- constants
NUL == 0             \* the 0 byte that ends a C string
NullPtr == 0         \* the null pointer, also "no thread"

Threads == 1..NumThreads

\* The input texts a caller passes (a Rust &str may hold NUL bytes): a text
\* without imports, texts with one import per byte 98, and a text with an
\* embedded NUL.
Inputs ==
    {<<97>>, <<97, NUL, 98>>} \cup {[i \in 1..k |-> 98] : k \in 1..MaxReads}

\* ------------------------------------------------------------ conversions
HasNul(s) == \E i \in 1..Len(s) : s[i] = NUL

\* CString::new: fails on an interior NUL, else the bytes plus a terminator.
CStringNew(s) ==
    IF HasNul(s) THEN [ok |-> FALSE, bytes |-> <<>>]
    ELSE [ok |-> TRUE, bytes |-> Append(s, NUL)]

\* CStr::from_ptr: the bytes before the first terminator.
CStrFromPtr(b) ==
    LET idx == {i \in 1..Len(b) : b[i] = NUL}
    IN  IF idx = {} THEN b
        ELSE SubSeq(b, 1, (CHOOSE i \in idx : \A j \in idx : i <= j) - 1)

\* to_string_lossy: every byte that is not valid UTF-8 (here 255) becomes
\* U+FFFD, the three bytes EF BF BD.
RECURSIVE ToStringLossy(_)
ToStringLossy(b) ==
    IF b = <<>> THEN <<>>
    ELSE (IF Head(b) = 255 THEN <<239, 191, 189>> ELSE <<Head(b)>>)
         \o ToStringLossy(Tail(b))

\* The input texts a closure passes when it calls compile itself.
NestedInputs == {<<97>>, <<97, NUL, 98>>}

\* The texts a closure replies with: one plain text and one holding a NUL.
ReplyTexts == {<<97>>, <<97, NUL>>}

\* The closure's possible results: Ok(text) or Err(text).
Replies == [kind : {"ok", "err"}, text : ReplyTexts]

\* ----------------------------------------------------------- native model
\* The document the native compile produces for the input it was given and
\* the replies its read requests received: "{", the input, then "+" and the
\* content of each successful read, "-" and the message of each failed one,
\* "!" for a read that gave nothing, "?" for each import that was never read,
\* and "}".
RECURSIVE ReplyBytes(_)
ReplyBytes(acc) ==
    IF acc = <<>> THEN <<>>
    ELSE (CASE Head(acc).kind = "ok" -> <<43>> \o Head(acc).text
            [] Head(acc).kind = "err" -> <<45>> \o Head(acc).text
            [] OTHER -> <<33>>)
         \o ReplyBytes(Tail(acc))

\* The imports an input asks for and does not supply: one per byte 98.
RECURSIVE Imports(_)
Imports(s) ==
    IF s = <<>> THEN 0
    ELSE (IF Head(s) = 98 THEN 1 ELSE 0) + Imports(Tail(s))

\* The i-th read request of a compile: kind "s" (source) and the name of the
\* i-th import, "d" and the digit i.
Request(i) == [kind |-> <<115>>, data |-> <<100, 48 + i>>]

\* One "?" ("not found") for every import that no read request resolved.
Missing(cur, acc) ==
    [i \in 1..(IF Imports(cur) > Len(acc) THEN Imports(cur) - Len(acc) ELSE 0) |-> 63]

NativeOutput(cur, acc) ==
    <<123>> \o cur \o ReplyBytes(acc) \o Missing(cur, acc) \o <<125>>

\* What may follow the document in the output buffer: nothing, or a byte
\* that is not valid UTF-8.
NativeTails == {<<>>, <<255>>}

\* The bytes that mark an error entry of the output: "-", "!" and "?".
ErrorMarks == {45, 33, 63}

\* solidity_version / solidity_license: static texts of the library, "v" and
\* "l" here, each ending in a terminator.
NativeVersion == <<118, NUL>>
NativeLicense == <<108, NUL>>

\* solidity_alloc: the lowest address not in use.
NativeFresh(h) ==
    CHOOSE p \in 1..(Cardinality(DOMAIN h) + 1) :
        /\ p \notin DOMAIN h
        /\ \A q \in 1..(p - 1) : q \in DOMAIN h

\* solidity_alloc: a buffer of `size` bytes at address p, then holding `bytes`.
NativeAlloc(h, p, size, bytes) ==
    [q \in DOMAIN h \cup {p} |-> IF q = p THEN [size |-> size, bytes |-> bytes] ELSE h[q]]

\* solidity_free: the buffer leaves the library's allocation list.
NativeFree(h, p) == [q \in DOMAIN h \ {p} |-> h[q]]

\* solidity_reset: every buffer still on the allocation list is reclaimed.
NativeReset(h) == [q \in {} |-> [size |-> 0, bytes |-> <<>>]]

\* The library's process-global state between two compiles.
NatIdle == [cur |-> <<>>, acc |-> <<>>, cb |-> FALSE, ctx |-> NullPtr, dirty |-> FALSE]

\* -------------------------------------------------------------- variables
VARIABLES
    pc,        \* each thread's position in compile / solidity_compile
    op,        \* the entry point of the thread's current invocation
    input,     \* its input text
    ctx,       \* its boxed closure: "none", "live", "destroyed"
    drops,     \* how often the boxed closure of this invocation was destroyed
    out,       \* the pointer solidity_compile returned
    result,    \* output_cstr, the text solidity_compile returns
    status,    \* how the invocation ended
    log,       \* the replies this thread's closure gave in this invocation
    trace,     \* the steps of solidity_compile taken in this invocation
    poisonedAtCall, \* was the mutex poisoned when the invocation began
    mutex,     \* SOLC_MUTEX: holder and poison flag
    heap,      \* live buffers of the native allocator
    nat,       \* the native library's process-global state
    slots,     \* the latest trampoline invocation and its two output slots
    ungated,   \* a native call was made by a thread that did not hold the mutex
    doubleFree,\* the native side was asked to release a buffer it no longer had
    badDeref,  \* a trampoline ran on a closure that was already destroyed
    aborted,   \* the process was aborted
    calls,     \* invocations started so far
    inner      \* the compile call a closure made from inside the callback

vars == <<pc, op, input, ctx, drops, out, result, status, log, trace,
          poisonedAtCall, mutex, heap, nat, slots, ungated, doubleFree,
          badDeref, aborted, calls, inner>>

NoInner == [at |-> "none", input |-> <<>>]

\* No trampoline invocation: reply is what the closure returned, content and
\* error are the two output slots, ptr the buffer written to one of them; by
\* is the thread the trampoline ran on, owner the thread whose closure the
\* context pointed to, gate the holder of the mutex at that moment; req is
\* the (kind, data) the native library passed, seen what the closure got;
\* nested is the compile call the closure had made before it replied.
NoSlots ==
    [reply |-> "none", text |-> <<>>, content |-> <<>>, error |-> <<>>,
     ptr |-> NullPtr, by |-> NullPtr, owner |-> NullPtr, gate |-> NullPtr,
     req |-> [kind |-> <<>>, data |-> <<>>],
     seen |-> [kind |-> <<>>, data |-> <<>>], nested |-> NoInner]

Init ==
    /\ pc = [t \in Threads |-> "idle"]
    /\ op = [t \in Threads |-> "none"]
    /\ input = [t \in Threads |-> <<>>]
    /\ ctx = [t \in Threads |-> "none"]
    /\ drops = [t \in Threads |-> 0]
    /\ out = [t \in Threads |-> NullPtr]
    /\ result = [t \in Threads |-> <<>>]
    /\ status = [t \in Threads |-> "none"]
    /\ log = [t \in Threads |-> <<>>]
    /\ trace = [t \in Threads |-> <<>>]
    /\ poisonedAtCall = [t \in Threads |-> FALSE]
    /\ mutex = [holder |-> NullPtr, poisoned |-> FALSE]
    /\ heap = NativeReset(<<>>)
    /\ nat = NatIdle
    /\ slots = NoSlots
    /\ ungated = FALSE
    /\ doubleFree = FALSE
    /\ badDeref = FALSE
    /\ aborted = FALSE
    /\ calls = 0
    /\ inner = [t \in Threads |-> NoInner]

Ended == {"done", "panicked"}
Critical == {"call_native", "in_native", "copy", "free", "reset", "unlock"}

\* A new invocation starts on a thread that is not inside one.
Begin(t, o, in, c) ==
    /\ ~aborted
    /\ pc[t] \in {"idle"} \cup Ended
    /\ calls < MaxCalls
    /\ calls' = calls + 1
    /\ pc' = [pc EXCEPT ![t] = "cstring"]
    /\ op' = [op EXCEPT ![t] = o]
    /\ input' = [input EXCEPT ![t] = in]
    /\ ctx' = [ctx EXCEPT ![t] = c]
    /\ drops' = [drops EXCEPT ![t] = 0]
    /\ status' = [status EXCEPT ![t] = "none"]
    /\ trace' = [trace EXCEPT ![t] = <<>>]
    /\ poisonedAtCall' = [poisonedAtCall EXCEPT ![t] = mutex.poisoned]
    /\ result' = [result EXCEPT ![t] = <<>>]
    /\ UNCHANGED <<out, log, mutex, heap, nat, slots, ungated,
                   doubleFree, badDeref, aborted, inner>>

\* compile(input): solidity_compile(input, None, null).
Compile(t, in) == Begin(t, "compile", in, "none")

\* Variant: the box is dropped before the native call.
CompileWithCallback_EarlyDrop(t, in) == Begin(t, "compile_with_callback", in, "destroyed")

\* compile_with_callback(input, f): Box::into_raw(Box::new(f)), then
\* solidity_compile(input, Some(call_callback::<F>), c_context).
CompileWithCallback(t, in) == Begin(t, "compile_with_callback", in, "live")

\* version() / license(): the static text behind the pointer the native
\* library returns, copied with CStr::from_ptr(..).to_string_lossy(); no lock
\* is taken and nothing is allocated or released.
Query(t, o, text) ==
    /\ ~aborted
    /\ pc[t] \in {"idle"} \cup Ended
    /\ calls < MaxCalls
    /\ calls' = calls + 1
    /\ pc' = [pc EXCEPT ![t] = "done"]
    /\ op' = [op EXCEPT ![t] = o]
    /\ result' = [result EXCEPT ![t] = ToStringLossy(CStrFromPtr(text))]
    /\ status' = [status EXCEPT ![t] = "ok"]
    /\ input' = [input EXCEPT ![t] = <<>>]
    /\ ctx' = [ctx EXCEPT ![t] = "none"]
    /\ drops' = [drops EXCEPT ![t] = 0]
    /\ trace' = [trace EXCEPT ![t] = <<>>]
    /\ poisonedAtCall' = [poisonedAtCall EXCEPT ![t] = mutex.poisoned]
    /\ UNCHANGED <<out, log, mutex, heap, nat, slots, ungated, doubleFree,
                   badDeref, aborted, inner>>

\* Variant: version() takes SOLC_MUTEX like solidity_compile does.
Version_Locked(t) ==
    /\ mutex.holder = NullPtr
    /\ ~mutex.poisoned
    /\ Query(t, "version", NativeVersion)

\* version(): solidity_version()
Version(t) == Query(t, "version", NativeVersion)

\* license(): solidity_license()
License(t) == Query(t, "license", NativeLicense)

\* A panic leaves solidity_compile and unwinds through its caller, dropping
\* the frame's locals; the raw context pointer of compile_with_callback is
\* not dropped on the way.
Panic(t, why) ==
    /\ pc' = [pc EXCEPT ![t] = "panicked"]
    /\ status' = [status EXCEPT ![t] = why]
    /\ input' = [input EXCEPT ![t] = <<>>]
    /\ out' = [out EXCEPT ![t] = NullPtr]
    /\ result' = [result EXCEPT ![t] = <<>>]

\* Variant: the input is truncated at its first NUL instead of rejected.
InputCString_Truncate(t) ==
    /\ ~aborted
    /\ pc[t] = "cstring"
    /\ pc' = [pc EXCEPT ![t] = "lock"]
    /\ input' = [input EXCEPT ![t] = CStrFromPtr(@)]
    /\ UNCHANGED <<op, ctx, drops, out, result, status, log, trace,
                   poisonedAtCall, mutex, heap, nat, slots, ungated, doubleFree,
                   badDeref, aborted, calls, inner>>

\* CString::new(input).expect(..)
InputCString(t) ==
    /\ ~aborted
    /\ pc[t] = "cstring"
    /\ IF CStringNew(input[t]).ok
       THEN /\ pc' = [pc EXCEPT ![t] = "lock"]
            /\ UNCHANGED <<status, input, out, result>>
       ELSE Panic(t, "InvalidInput")
    /\ UNCHANGED <<op, ctx, drops, log, trace, poisonedAtCall, mutex, heap, nat,
                   slots, ungated, doubleFree, badDeref, aborted, calls, inner>>

\* Variant: the mutex is taken without waiting for its holder.
LockAcquire_NoWait(t) ==
    /\ ~aborted
    /\ pc[t] = "lock"
    /\ mutex' = [mutex EXCEPT !.holder = t]
    /\ pc' = [pc EXCEPT ![t] = "expect"]
    /\ UNCHANGED <<op, input, ctx, drops, out, result, status, log, trace,
                   poisonedAtCall, heap, nat, slots, ungated, doubleFree,
                   badDeref, aborted, calls, inner>>

\* Variant: the mutex is reentrant, its holder may lock it again.
LockAcquire_Reentrant(t) ==
    /\ ~aborted
    /\ pc[t] = "lock" \/ inner[t].at = "lock"
    /\ mutex.holder \in {NullPtr, t}
    /\ mutex' = [mutex EXCEPT !.holder = t]
    /\ IF inner[t].at = "lock"
       THEN /\ inner' = [inner EXCEPT ![t].at = "acquired"]
            /\ UNCHANGED pc
       ELSE /\ pc' = [pc EXCEPT ![t] = "expect"]
            /\ UNCHANGED inner
    /\ UNCHANGED <<op, input, ctx, drops, out, result, status, log, trace,
                   poisonedAtCall, heap, nat, slots, ungated, doubleFree,
                   badDeref, aborted, calls>>

\* SOLC_MUTEX.lock(): blocks until no thread holds the mutex, the calling
\* thread included; the call a closure made from inside the callback waits
\* here as well.
LockAcquire(t) ==
    /\ ~aborted
    /\ pc[t] = "lock" \/ inner[t].at = "lock"
    /\ mutex.holder = NullPtr
    /\ mutex' = [mutex EXCEPT !.holder = t]
    /\ IF inner[t].at = "lock"
       THEN /\ inner' = [inner EXCEPT ![t].at = "acquired"]
            /\ UNCHANGED pc
       ELSE /\ pc' = [pc EXCEPT ![t] = "expect"]
            /\ UNCHANGED inner
    /\ UNCHANGED <<op, input, ctx, drops, out, result, status, log, trace,
                   poisonedAtCall, heap, nat, slots, ungated, doubleFree,
                   badDeref, aborted, calls>>

\* Variant: the poison is ignored and the guard recovered from the error.
LockExpect_IgnorePoison(t) ==
    /\ ~aborted
    /\ pc[t] = "expect"
    /\ pc' = [pc EXCEPT ![t] = "call_native"]
    /\ trace' = [trace EXCEPT ![t] = Append(@, "acquire")]
    /\ UNCHANGED <<op, input, ctx, drops, out, result, status, log,
                   poisonedAtCall, mutex, heap, nat, slots, ungated, doubleFree,
                   badDeref, aborted, calls, inner>>

\* Variant: the guard is bound to _ and dropped at once.
LockExpect_DropGuard(t) ==
    /\ ~aborted
    /\ pc[t] = "expect"
    /\ IF mutex.poisoned
       THEN /\ Panic(t, "PoisonedLock")
            /\ UNCHANGED trace
       ELSE /\ pc' = [pc EXCEPT ![t] = "call_native"]
            /\ trace' = [trace EXCEPT ![t] = Append(@, "acquire")]
            /\ UNCHANGED <<status, input, out, result>>
    /\ mutex' = [mutex EXCEPT !.holder = NullPtr]
    /\ UNCHANGED <<op, ctx, drops, log, poisonedAtCall, heap, nat, slots,
                   ungated, doubleFree, badDeref, aborted, calls, inner>>

\* .expect(..): a poisoned mutex makes lock() return Err; the panic drops the
\* guard inside the error.  Otherwise the guard is bound to _lock.
LockExpect(t) ==
    /\ ~aborted
    /\ pc[t] = "expect"
    /\ IF mutex.poisoned
       THEN /\ Panic(t, "PoisonedLock")
            /\ mutex' = [mutex EXCEPT !.holder = NullPtr]
            /\ UNCHANGED trace
       ELSE /\ pc' = [pc EXCEPT ![t] = "call_native"]
            /\ trace' = [trace EXCEPT ![t] = Append(@, "acquire")]
            /\ UNCHANGED <<status, input, out, result, mutex>>
    /\ UNCHANGED <<op, ctx, drops, log, poisonedAtCall, heap, nat, slots,
                   ungated, doubleFree, badDeref, aborted, calls, inner>>

\* Variant: the closure is kept in one process-wide place (that of the first
\* thread) instead of being passed as this call's context.
NativeCompileEnter_SharedContext(t) ==
    /\ ~aborted
    /\ pc[t] = "call_native"
    /\ nat' = [cur |-> CStrFromPtr(CStringNew(input[t]).bytes),
               acc |-> <<>>,
               cb |-> (op[t] = "compile_with_callback"),
               ctx |-> IF op[t] = "compile_with_callback" THEN 1 ELSE NullPtr,
               dirty |-> TRUE]
    /\ ungated' = (ungated \/ mutex.holder # t)
    /\ pc' = [pc EXCEPT ![t] = "in_native"]
    /\ trace' = [trace EXCEPT ![t] = Append(@, "compile")]
    /\ UNCHANGED <<op, input, ctx, drops, out, result, status, log,
                   poisonedAtCall, mutex, heap, slots, doubleFree, badDeref,
                   aborted, calls, inner>>

\* native::solidity_compile(input_cstr.as_ptr(), callback, c_context): the
\* native library reads its input and keeps the callback and its context.
NativeCompileEnter(t) ==
    /\ ~aborted
    /\ pc[t] = "call_native"
    /\ nat' = [cur |-> CStrFromPtr(CStringNew(input[t]).bytes),
               acc |-> <<>>,
               cb |-> (op[t] = "compile_with_callback"),
               ctx |-> IF op[t] = "compile_with_callback" THEN t ELSE NullPtr,
               dirty |-> TRUE]
    /\ ungated' = (ungated \/ mutex.holder # t)
    /\ pc' = [pc EXCEPT ![t] = "in_native"]
    /\ trace' = [trace EXCEPT ![t] = Append(@, "compile")]
    /\ UNCHANGED <<op, input, ctx, drops, out, result, status, log,
                   poisonedAtCall, mutex, heap, slots, doubleFree, badDeref,
                   aborted, calls, inner>>

\* copy_result_to_solidity_memory(result, target): the buffer the reply is
\* copied into, as [size, bytes]; nothing when CString::new fails.
CopyResultToSolidityMemory(text) ==
    LET contents_cstr == CStringNew(text)
        contents_size == Len(contents_cstr.bytes)
    IN  [ok |-> contents_cstr.ok,
         size |-> contents_size,
         bytes |-> SubSeq(contents_cstr.bytes, 1, contents_size)]

\* The start of call_callback::<F> on thread t, up to the closure's return:
\* the context is cast back to the closure, kind and data are decoded with
\* CStr::from_ptr(..).to_string_lossy(), and the closure is called with them
\* and returns r (or panics).  Neither slot is written yet.
Trampoline(t, r) ==
    LET q == Request(Len(nat.acc) + 1)
    IN  [reply |-> r.kind, text |-> r.text, content |-> <<>>, error |-> <<>>,
         ptr |-> NullPtr, by |-> t, owner |-> nat.ctx, gate |-> mutex.holder,
         req |-> q,
         seen |-> [kind |-> ToStringLossy(CStrFromPtr(Append(q.kind, NUL))),
                   data |-> ToStringLossy(CStrFromPtr(Append(q.data, NUL)))],
         nested |-> inner[t]]

\* The closure calls compile(in) or compile_with_callback(in, ..) itself:
\* CString::new(in).expect(..) panics inside the closure, or the call goes on
\* to SOLC_MUTEX.lock().
NestedCompile(t, in) ==
    /\ ~aborted
    /\ pc[t] = "in_native"
    /\ nat.cb
    /\ Len(nat.acc) < Imports(nat.cur)
    /\ inner[t].at = "none"
    /\ inner' = [inner EXCEPT ![t] =
                    [at |-> IF CStringNew(in).ok THEN "lock" ELSE "failed",
                     input |-> in]]
    /\ UNCHANGED <<pc, op, input, ctx, drops, out, result, status, log, trace,
                   poisonedAtCall, mutex, heap, nat, slots, ungated, doubleFree,
                   badDeref, aborted, calls>>

\* Variant: the buffer is released again as soon as its address is written
\* to the slot.
CallCallback_FreeBuffer(t, r) ==
    /\ ~aborted
    /\ pc[t] = "in_native"
    /\ nat.cb
    /\ Len(nat.acc) < Imports(nat.cur)
    /\ inner[t].at \in {"none", "failed"}
    /\ inner' = [inner EXCEPT ![t] = NoInner]
    /\ LET owner == nat.ctx
           buf == CopyResultToSolidityMemory(r.text)
           contents_ptr == NativeFresh(heap)
       IN  /\ buf.ok
           /\ heap' = NativeFree(NativeAlloc(heap, contents_ptr, buf.size, buf.bytes), contents_ptr)
           /\ slots' = [Trampoline(t, r) EXCEPT
                            !.content = IF r.kind = "ok" THEN buf.bytes ELSE <<>>,
                            !.error = IF r.kind = "err" THEN buf.bytes ELSE <<>>,
                            !.ptr = contents_ptr]
           /\ nat' = [nat EXCEPT !.acc = Append(@, [kind |-> r.kind,
                                                   text |-> CStrFromPtr(buf.bytes)])]
           /\ log' = [log EXCEPT ![owner] = Append(@, r)]
           /\ badDeref' = (badDeref \/ ctx[owner] # "live")
    /\ ungated' = (ungated \/ mutex.holder # t)
    /\ UNCHANGED <<pc, op, input, ctx, drops, out, result, status, trace,
                   poisonedAtCall, mutex, doubleFree, aborted, calls>>

\* call_callback::<F> for a closure that returns r: the reply is copied into a
\* buffer of the native allocator and the buffer's address is written to
\* o_contents for Ok, to o_error for Err.
CallCallback(t, r) ==
    /\ ~aborted
    /\ pc[t] = "in_native"
    /\ nat.cb
    /\ Len(nat.acc) < Imports(nat.cur)
    /\ inner[t].at \in {"none", "failed"}
    /\ inner' = [inner EXCEPT ![t] = NoInner]
    /\ LET owner == nat.ctx
           buf == CopyResultToSolidityMemory(r.text)
           contents_ptr == NativeFresh(heap)
       IN  /\ buf.ok
           /\ heap' = NativeAlloc(heap, contents_ptr, buf.size, buf.bytes)
           /\ slots' = [Trampoline(t, r) EXCEPT
                            !.content = IF r.kind = "ok" THEN buf.bytes ELSE <<>>,
                            !.error = IF r.kind = "err" THEN buf.bytes ELSE <<>>,
                            !.ptr = contents_ptr]
           /\ nat' = [nat EXCEPT !.acc = Append(@, [kind |-> r.kind,
                                                   text |-> CStrFromPtr(buf.bytes)])]
           /\ log' = [log EXCEPT ![owner] = Append(@, r)]
           /\ badDeref' = (badDeref \/ ctx[owner] # "live")
    /\ ungated' = (ungated \/ mutex.holder # t)
    /\ UNCHANGED <<pc, op, input, ctx, drops, out, result, status, trace,
                   poisonedAtCall, mutex, doubleFree, aborted, calls>>

\* A panic inside call_callback: the closure panics, or the reply holds a NUL
\* byte and CString::new(result).expect(..) panics.  Unwinding out of an
\* extern "C" function is undefined: the process aborts, or the panic unwinds
\* through the native frames into solidity_compile (the guard _lock is dropped
\* while panicking, which poisons the mutex), or the native library catches
\* it and carries on with neither slot written.
CallbackPanic(t, r, outcome) ==
    /\ ~aborted
    /\ pc[t] = "in_native"
    /\ nat.cb
    /\ Len(nat.acc) < Imports(nat.cur)
    /\ inner[t].at \in {"none", "failed"}
    /\ inner' = [inner EXCEPT ![t] = NoInner]
    /\ r.kind = "panic" \/ ~CopyResultToSolidityMemory(r.text).ok
    /\ badDeref' = (badDeref \/ ctx[nat.ctx] # "live")
    /\ CASE outcome = "abort" ->
              /\ aborted' = TRUE
              /\ slots' = Trampoline(t, r)
              /\ UNCHANGED <<pc, status, input, out, result, mutex, nat, log, trace>>
         [] outcome = "unwind" ->
              /\ Panic(t, "CallbackPanic")
              /\ mutex' = [holder |-> NullPtr, poisoned |-> TRUE]
              /\ trace' = [trace EXCEPT ![t] = Append(@, "release")]
              /\ log' = [log EXCEPT ![t] = <<>>]
              /\ slots' = NoSlots
              /\ UNCHANGED <<aborted, nat>>
         [] OTHER ->
              /\ nat' = [nat EXCEPT !.acc = Append(@, [kind |-> "panic", text |-> <<>>])]
              /\ log' = [log EXCEPT ![nat.ctx] = Append(@, [kind |-> "panic", text |-> <<>>])]
              /\ slots' = Trampoline(t, r)
              /\ UNCHANGED <<pc, status, input, out, result, mutex, aborted, trace>>
    /\ UNCHANGED <<op, ctx, drops, poisonedAtCall, heap, ungated, doubleFree, calls>>

\* native::solidity_compile returns the address of its output document, once
\* every import was asked for through the callback it was given, if any.
\* The document is a C string of bytes the host does not control: it may end
\* in bytes that are not valid UTF-8.
NativeCompileReturn(t, tail) ==
    /\ ~aborted
    /\ pc[t] = "in_native"
    /\ inner[t].at = "none"
    /\ nat.cb => Len(nat.acc) >= Imports(nat.cur)
    /\ LET doc == Append(NativeOutput(nat.cur, nat.acc) \o tail, NUL)
           ptr == NativeFresh(heap)
       IN  /\ heap' = NativeAlloc(heap, ptr, Len(doc), doc)
           /\ out' = [out EXCEPT ![t] = ptr]
    /\ slots' = NoSlots
    /\ pc' = [pc EXCEPT ![t] = "copy"]
    /\ UNCHANGED <<op, input, ctx, drops, result, status, log, trace,
                   poisonedAtCall, mutex, nat, ungated, doubleFree, badDeref,
                   aborted, calls, inner>>

\* The bytes at an address; a released buffer holds nothing the host may read.
ReadBuf(h, p) == IF p \in DOMAIN h THEN h[p].bytes ELSE <<>>

\* Variant: the output is decoded strictly (to_str), and is empty when it is
\* not valid UTF-8.
CopyOutput_Utf8Only(t) ==
    /\ ~aborted
    /\ pc[t] = "copy"
    /\ result' = [result EXCEPT ![t] =
                     IF 255 \in {ReadBuf(heap, out[t])[i] : i \in 1..Len(ReadBuf(heap, out[t]))}
                     THEN <<>> ELSE CStrFromPtr(ReadBuf(heap, out[t]))]
    /\ trace' = [trace EXCEPT ![t] =
                    Append(@, IF out[t] \in DOMAIN heap THEN "copy" ELSE "copy_freed")]
    /\ pc' = [pc EXCEPT ![t] = "free"]
    /\ UNCHANGED <<op, input, ctx, drops, out, status, log, poisonedAtCall,
                   mutex, heap, nat, slots, ungated, doubleFree, badDeref,
                   aborted, calls, inner>>

\* CStr::from_ptr(ptr).to_string_lossy().into_owned()
CopyOutput(t) ==
    /\ ~aborted
    /\ pc[t] = "copy"
    /\ result' = [result EXCEPT ![t] = ToStringLossy(CStrFromPtr(ReadBuf(heap, out[t])))]
    /\ trace' = [trace EXCEPT ![t] =
                    Append(@, IF out[t] \in DOMAIN heap THEN "copy" ELSE "copy_freed")]
    /\ pc' = [pc EXCEPT ![t] = "free"]
    /\ UNCHANGED <<op, input, ctx, drops, out, status, log, poisonedAtCall,
                   mutex, heap, nat, slots, ungated, doubleFree, badDeref,
                   aborted, calls, inner>>

\* native::solidity_free(ptr)
Free(t) ==
    /\ ~aborted
    /\ pc[t] = "free"
    /\ heap' = NativeFree(heap, out[t])
    /\ doubleFree' = (doubleFree \/ out[t] \notin DOMAIN heap)
    /\ ungated' = (ungated \/ mutex.holder # t)
    /\ trace' = [trace EXCEPT ![t] = Append(@, "free")]
    /\ pc' = [pc EXCEPT ![t] = "reset"]
    /\ UNCHANGED <<op, input, ctx, drops, out, result, status, log,
                   poisonedAtCall, mutex, nat, slots, badDeref, aborted, calls, inner>>

\* native::solidity_reset()
Reset(t) ==
    /\ ~aborted
    /\ pc[t] = "reset"
    /\ heap' = NativeReset(heap)
    /\ nat' = NatIdle
    /\ ungated' = (ungated \/ mutex.holder # t)
    /\ trace' = [trace EXCEPT ![t] = Append(@, "reset")]
    /\ pc' = [pc EXCEPT ![t] = "unlock"]
    /\ UNCHANGED <<op, input, ctx, drops, out, result, status, log,
                   poisonedAtCall, mutex, slots, doubleFree, badDeref, aborted,
                   calls, inner>>

\* Variant: the guard is leaked (mem::forget), the mutex stays locked.
Unlock_Forget(t) ==
    /\ ~aborted
    /\ pc[t] = "unlock"
    /\ trace' = [trace EXCEPT ![t] = Append(@, "release")]
    /\ pc' = [pc EXCEPT ![t] = IF op[t] = "compile_with_callback"
                               THEN "from_raw" ELSE "done"]
    /\ status' = [status EXCEPT ![t] = IF op[t] = "compile_with_callback"
                                       THEN @ ELSE "ok"]
    /\ input' = [input EXCEPT ![t] = <<>>]
    /\ out' = [out EXCEPT ![t] = NullPtr]
    /\ result' = [result EXCEPT ![t] = <<>>]
    /\ log' = [log EXCEPT ![t] = <<>>]
    /\ UNCHANGED <<op, ctx, drops, poisonedAtCall, mutex, heap, nat, slots,
                   ungated, doubleFree, badDeref, aborted, calls, inner>>

\* solidity_compile returns output_cstr to its caller; the guard _lock goes
\* out of scope and the frame's locals are gone.
Unlock(t) ==
    /\ ~aborted
    /\ pc[t] = "unlock"
    /\ mutex' = [mutex EXCEPT !.holder = NullPtr]
    /\ trace' = [trace EXCEPT ![t] = Append(@, "release")]
    /\ pc' = [pc EXCEPT ![t] = IF op[t] = "compile_with_callback"
                               THEN "from_raw" ELSE "done"]
    /\ status' = [status EXCEPT ![t] = IF op[t] = "compile_with_callback"
                                       THEN @ ELSE "ok"]
    /\ input' = [input EXCEPT ![t] = <<>>]
    /\ out' = [out EXCEPT ![t] = NullPtr]
    /\ result' = [result EXCEPT ![t] = <<>>]
    /\ log' = [log EXCEPT ![t] = <<>>]
    /\ UNCHANGED <<op, ctx, drops, poisonedAtCall, heap, nat, slots, ungated,
                   doubleFree, badDeref, aborted, calls, inner>>

\* unsafe { Box::from_raw(c_context) }; result
DestroyContext(t) ==
    /\ ~aborted
    /\ pc[t] = "from_raw"
    /\ ctx' = [ctx EXCEPT ![t] = "destroyed"]
    /\ drops' = [drops EXCEPT ![t] = @ + 1]
    /\ pc' = [pc EXCEPT ![t] = "done"]
    /\ status' = [status EXCEPT ![t] = "ok"]
    /\ UNCHANGED <<op, input, out, result, log, trace, poisonedAtCall, mutex,
                   heap, nat, slots, ungated, doubleFree, badDeref, aborted, calls, inner>>

PanicReplies == [kind : {"panic"}, text : {<<>>}]
Outcomes == {"abort", "unwind", "absorbed"}

Next ==
    \/ \E t \in Threads : Version(t)
    \/ \E t \in Threads : License(t)
    \/ \E t \in Threads, in \in Inputs : Compile(t, in)
    \/ \E t \in Threads, in \in Inputs : CompileWithCallback(t, in)
    \/ \E t \in Threads : InputCString(t)
    \/ \E t \in Threads : LockAcquire(t)
    \/ \E t \in Threads : LockExpect(t)
    \/ \E t \in Threads : NativeCompileEnter(t)
    \/ \E t \in Threads, in \in NestedInputs : NestedCompile(t, in)
    \/ \E t \in Threads, r \in Replies : CallCallback(t, r)
    \/ \E t \in Threads, r \in Replies \cup PanicReplies, o \in Outcomes :
          CallbackPanic(t, r, o)
    \/ \E t \in Threads, tail \in NativeTails : NativeCompileReturn(t, tail)
    \/ \E t \in Threads : CopyOutput(t)
    \/ \E t \in Threads : Free(t)
    \/ \E t \in Threads : Reset(t)
    \/ \E t \in Threads : Unlock(t)
    \/ \E t \in Threads : DestroyContext(t)

Spec == Init /\ [][Next]_vars

\* The next step of thread t inside an invocation it has begun; the native
\* compile either calls the trampoline or returns.
Step(t) ==
    \/ InputCString(t)
    \/ LockAcquire(t)
    \/ LockExpect(t)
    \/ NativeCompileEnter(t)
    \/ \E r \in Replies : CallCallback(t, r)
    \/ \E r \in Replies \cup PanicReplies, o \in Outcomes : CallbackPanic(t, r, o)
    \/ \E tail \in NativeTails : NativeCompileReturn(t, tail)
    \/ CopyOutput(t)
    \/ Free(t)
    \/ Reset(t)
    \/ Unlock(t)
    \/ DestroyContext(t)

\* Every thread that can take its next step eventually takes it: threads are
\* scheduled, native calls and closures return, and a thread blocked in
\* lock() is woken once the mutex stays free.
FairSpec == Spec /\ \A t \in Threads : WF_vars(Step(t))

\* ------------------------------------------------------------------ claims
Holding == Critical \cup {"expect"}
CompileOps == {"compile", "compile_with_callback"}
Range(s) == {s[i] : i \in 1..Len(s)}
IsPrefix(s, u) == Len(s) <= Len(u) /\ SubSeq(u, 1, Len(s)) = s

\* C1: at most one thread is between lock() and the drop of its guard, every
\* thread that is there holds the mutex, and no native compile, free, reset
\* or alloc call was made by a thread that did not hold the mutex.
GateExclusion ==
    /\ Cardinality({t \in Threads : pc[t] \in Holding}) <= 1
    /\ \A t \in Threads : pc[t] \in Holding => mutex.holder = t
    /\ ~ungated

\* C1 witness: a thread is inside the native compile of one entry point while
\* a thread that called the other entry point is blocked on the mutex.
GateContended ==
    \E t, u \in Threads :
        /\ pc[t] = "in_native" /\ pc[u] = "lock"
        /\ op[t] = "compile_with_callback" /\ op[u] = "compile"

\* C2 (as claimed): reset has run since the previous native compile whenever
\* a thread is about to enter the native compile, whenever the gate is idle,
\* and whenever an invocation that entered the native compile has ended.
ResetAlwaysRuns ==
    /\ \A t \in Threads : pc[t] = "call_native" => ~nat.dirty
    /\ (mutex.holder = NullPtr /\ ~mutex.poisoned) => ~nat.dirty
    /\ \A t \in Threads :
          (pc[t] \in Ended \cup {"from_raw"} /\ "compile" \in Range(trace[t]))
              => "reset" \in Range(trace[t])

\* C3 (as claimed): the native side is never asked to release a buffer twice,
\* and when no invocation is inside the critical section no native buffer is
\* still allocated.
NativeBuffersBalanced ==
    /\ ~doubleFree
    /\ (\A t \in Threads : pc[t] \notin Critical) => DOMAIN heap = {}

\* C4 (as claimed): the steps of an invocation are a prefix of acquire,
\* compile, copy (of a live buffer), free, reset, release.
StepOrder ==
    \A t \in Threads :
        IsPrefix(trace[t], <<"acquire", "compile", "copy", "free", "reset", "release">>)

\* C5: the boxed closure of an invocation is destroyed at most once, only
\* once solidity_compile has returned, and no trampoline ran on a closure
\* that was already destroyed.
ContextLifetime ==
    /\ \A t \in Threads :
          /\ drops[t] <= 1
          /\ ctx[t] = "destroyed" =>
                (pc[t] = "done" /\ drops[t] = 1 /\ "release" \in Range(trace[t]))
    /\ ~badDeref

\* C5 witness: one invocation has destroyed its closure after its call while
\* the trampoline has run on the live closure of another one.
ContextUsedAndDestroyed ==
    \E t, u \in Threads :
        /\ ctx[t] = "destroyed" /\ drops[t] = 1
        /\ pc[u] = "in_native" /\ Len(log[u]) > 0 /\ ctx[u] = "live"

\* C6 (as claimed): an ended compile_with_callback invocation has destroyed
\* its boxed closure.
ContextAlwaysDestroyed ==
    \A t \in Threads :
        (pc[t] \in Ended /\ op[t] = "compile_with_callback")
            => (ctx[t] = "destroyed" /\ drops[t] = 1)

\* C7 (as claimed): after a trampoline invocation whose closure returned
\* Ok(text) the content slot holds a buffer with text and the error slot is
\* empty; after Err(text) it is the other way round.
ExactlyOneSlot ==
    /\ slots.reply = "ok" =>
          (slots.content = Append(slots.text, NUL) /\ slots.error = <<>>)
    /\ slots.reply = "err" =>
          (slots.error = Append(slots.text, NUL) /\ slots.content = <<>>)

\* C8: the step that marshals an input holding a NUL byte ends the invocation
\* with InvalidInput, before any step of the critical section, and changes
\* neither the mutex nor the native state.
InvalidInputRejected ==
    [][\A t \in Threads :
          (pc[t] = "cstring" /\ HasNul(input[t]) /\ pc'[t] # pc[t]) =>
              /\ pc'[t] = "panicked" /\ status'[t] = "InvalidInput"
              /\ trace'[t] = <<>>
              /\ UNCHANGED <<mutex, heap, nat, ungated>>]_vars

\* C8 witness: an invocation has failed with InvalidInput, the gate is free
\* and not poisoned, and another invocation has completed normally.
InvalidInputThenCompile ==
    \E t, u \in Threads :
        /\ pc[t] = "panicked" /\ status[t] = "InvalidInput"
        /\ pc[u] = "done" /\ status[u] = "ok"
        /\ mutex = [holder |-> NullPtr, poisoned |-> FALSE]

\* C9 (as claimed): an invocation that began after the mutex was poisoned
\* ends with PoisonedLock and without a step of the critical section.
PoisonedLockAlways ==
    \A t \in Threads :
        (poisonedAtCall[t] /\ pc[t] \in Ended /\ op[t] \in CompileOps)
            => (status[t] = "PoisonedLock" /\ trace[t] = <<>>)

\* C9 (amended): once poisoned the mutex stays poisoned and the native state
\* is never touched again; an invocation that began after the poisoning ends
\* without a step of the critical section, with InvalidInput when its input
\* holds a NUL byte and with PoisonedLock otherwise.
PoisonIsFatal ==
    [][/\ mutex.poisoned => (mutex'.poisoned /\ UNCHANGED <<heap, nat>>)
       /\ \A t \in Threads :
             (poisonedAtCall[t] /\ pc[t] \notin Ended /\ pc'[t] \in Ended) =>
                 /\ trace'[t] = <<>>
                 /\ status'[t] = IF HasNul(input[t]) THEN "InvalidInput"
                                 ELSE "PoisonedLock"]_vars

\* C9 witness: an invocation that began after the poisoning has failed with
\* PoisonedLock.
PoisonedLockSeen ==
    \E t \in Threads :
        poisonedAtCall[t] /\ pc[t] = "panicked" /\ status[t] = "PoisonedLock"

\* C10: the text solidity_compile is about to return is the native output
\* for the thread's own input and its own closure's replies (with whatever
\* the library put behind the document, decoded).
OwnOutput ==
    \A t \in Threads :
        pc[t] \in {"free", "reset", "unlock"} =>
            \E tail \in NativeTails :
                result[t] = ToStringLossy(NativeOutput(input[t], log[t]) \o tail)

\* C10 witness: a compile holds its output while a compile of another thread
\* with a different input waits for the gate.
ConcurrentCompiles ==
    \E t, u \in Threads :
        /\ op[t] = "compile" /\ op[u] = "compile"
        /\ pc[t] = "unlock" /\ pc[u] = "lock"
        /\ input[t] # input[u]
        /\ result[t] = NativeOutput(input[t], <<>>)

\* A thread is stuck in a compile call its closure made from the callback.
Reentered == \E t \in Threads : inner[t].at \in {"lock", "acquired"}

\* C11: a thread that is not inside the guarded section does not hold the
\* mutex, whether its invocation returned or failed; and unless the process
\* was aborted or a closure re-entered compile, a thread waiting in lock()
\* gets the guard or fails with PoisonedLock, and every invocation ends.
GateAlwaysReleased ==
    /\ [](\A t \in Threads : pc[t] \notin Holding => mutex.holder # t)
    /\ \A t \in Threads :
          pc[t] = "lock" ~>
              \/ pc[t] = "call_native"
              \/ pc[t] = "panicked" /\ status[t] = "PoisonedLock"
              \/ aborted \/ Reentered
    /\ \A t \in Threads :
          pc[t] \notin {"idle"} \cup Ended ~>
              (pc[t] \in Ended \/ aborted \/ Reentered)

\* C11 witness: the holder of the gate failed inside the guarded section and
\* the thread that was waiting for the gate has left the wait with
\* PoisonedLock; the mutex is free.
WaiterFailedAfterPoison ==
    \E t, u \in Threads :
        /\ pc[t] = "panicked" /\ status[t] = "CallbackPanic"
        /\ pc[u] = "panicked" /\ status[u] = "PoisonedLock"
        /\ ~poisonedAtCall[u]
        /\ mutex = [holder |-> NullPtr, poisoned |-> TRUE]

\* The trampoline ran on a thread that was inside the native compile of its
\* own compile_with_callback call and held the mutex.
TrampolineInsideCompile ==
    slots.reply # "none" =>
        /\ slots.gate = slots.by
        /\ pc[slots.by] = "in_native"
        /\ op[slots.by] = "compile_with_callback"

\* C12 (as claimed): the trampoline runs only inside the native compile of a
\* compile_with_callback call, on the thread that holds the mutex, and no
\* closure that called compile itself has returned a reply.
ReentrantCallbackNeverCompletes ==
    /\ TrampolineInsideCompile
    /\ \A t \in Threads : inner[t].at # "acquired"
    /\ slots.reply \in {"ok", "err"} => slots.nested.at = "none"

\* C12 (amended): the trampoline runs only inside the native compile of a
\* compile_with_callback call, on the thread that holds the mutex; the call
\* a closure makes with a NUL-free input never gets the mutex and the thread
\* takes no further step; only a nested call whose input holds a NUL byte
\* fails (with InvalidInput, before lock()) and lets the closure go on.
ReentrantCallbackBlocks ==
    /\ [](/\ TrampolineInsideCompile
          /\ \A t \in Threads :
                /\ inner[t].at # "acquired"
                /\ inner[t].at = "lock" => ~HasNul(inner[t].input)
                /\ inner[t].at = "failed" => HasNul(inner[t].input)
          /\ slots.nested.at # "none" =>
                (slots.nested.at = "failed" /\ HasNul(slots.nested.input)))
    /\ [][\A t \in Threads :
             inner[t].at = "lock" =>
                 /\ inner'[t] = inner[t]
                 /\ pc'[t] = pc[t] /\ log'[t] = log[t] /\ status'[t] = status[t]
                 /\ mutex'.holder = t]_vars

\* C12 witness: a closure has called compile with a NUL-free input; its
\* thread holds the mutex and waits for it, and so does another thread.
ReentrantDeadlock ==
    \E t, u \in Threads :
        /\ inner[t].at = "lock" /\ pc[t] = "in_native" /\ mutex.holder = t
        /\ pc[u] = "lock"

\* C13: the context a trampoline invocation receives is the closure of the
\* thread it runs on, that closure is live, and the replies of a thread's
\* closure grow only by a trampoline invocation on that same thread, inside
\* its own native compile.
OwnClosureOnly ==
    /\ [](slots.reply # "none" =>
             (slots.owner = slots.by /\ ctx[slots.owner] = "live"))
    /\ [][\A u \in Threads :
             Len(log'[u]) > Len(log[u]) =>
                 /\ pc[u] = "in_native" /\ op[u] = "compile_with_callback"
                 /\ slots'.by = u /\ slots'.owner = u
                 /\ \A v \in Threads \ {u} : log'[v] = log[v]]_vars

\* C13 witness: two compile_with_callback calls are under way on two
\* threads; the closure of one has replied inside its native compile while
\* the other, its closure boxed, waits for the gate.
ConcurrentCallbacks ==
    \E t, u \in Threads :
        /\ t # u
        /\ op[t] = "compile_with_callback" /\ op[u] = "compile_with_callback"
        /\ pc[t] = "in_native" /\ slots.reply = "ok" /\ slots.owner = t
        /\ Len(log[t]) > 0
        /\ pc[u] = "lock" /\ ctx[u] = "live"

\* s occurs in u as a run of consecutive bytes.
IsInfix(s, u) ==
    \E i \in 0..(Len(u) - Len(s)) : SubSeq(u, i + 1, i + Len(s)) = s

\* C14 (as claimed): when the closure has returned Err(message) the process
\* goes on and the native compile has received the message as the error of
\* that read; the text about to be returned holds an error entry with the
\* message of every failed read, and that invocation has taken every step up
\* to the release of the gate.
FailureReported ==
    /\ slots.reply = "err" =>
          /\ ~aborted
          /\ nat.acc # <<>>
          /\ nat.acc[Len(nat.acc)] = [kind |-> "err", text |-> slots.text]
    /\ \A t \in Threads :
          pc[t] \in {"free", "reset", "unlock"} =>
              \A i \in 1..Len(log[t]) :
                  log[t][i].kind = "err" =>
                      IsInfix(<<45>> \o log[t][i].text, result[t])
    /\ \A t \in Threads :
          (pc[t] = "unlock" /\ \E i \in 1..Len(log[t]) : log[t][i].kind = "err")
              => trace[t] = <<"acquire", "compile", "copy", "free", "reset">>

\* C15 (as claimed): when the closure has returned Ok(content) it was called
\* with the (kind, data) of the request and the native compile goes on with
\* that content; the output of a compile_with_callback call whose reads all
\* succeeded has no error entry; compile never runs a trampoline, and its
\* output has a "not found" entry when the input has an unresolved import.
ImportResolvedByCallback ==
    /\ slots.reply = "ok" =>
          /\ ~aborted
          /\ slots.seen = slots.req
          /\ nat.acc # <<>>
          /\ nat.acc[Len(nat.acc)] = [kind |-> "ok", text |-> slots.text]
    /\ slots.reply # "none" => op[slots.by] = "compile_with_callback"
    /\ \A t \in Threads :
          (/\ pc[t] \in {"free", "reset", "unlock"}
           /\ op[t] = "compile_with_callback"
           /\ \A i \in 1..Len(log[t]) : log[t][i].kind = "ok")
              => Range(result[t]) \cap ErrorMarks = {}
    /\ \A t \in Threads :
          op[t] = "compile" =>
              /\ log[t] = <<>>
              /\ (pc[t] \in {"free", "reset", "unlock"} /\ Imports(input[t]) > 0)
                    => 63 \in Range(result[t])

QueryOps == {"version", "license"}

\* C16: a thread that is not inside an invocation can always complete
\* version() and license(), whoever holds the mutex and whether or not it is
\* poisoned; the step returns the library's static text and changes neither
\* the mutex nor the native allocation and compile state.
QueriesFreeOfGate ==
    /\ [](\A t \in Threads :
             (~aborted /\ pc[t] \in {"idle"} \cup Ended /\ calls < MaxCalls) =>
                 (ENABLED Version(t) /\ ENABLED License(t)))
    /\ [][\A t \in Threads :
             (calls' # calls /\ pc'[t] = "done" /\ op'[t] \in QueryOps) =>
                 /\ status'[t] = "ok"
                 /\ result'[t] = (IF op'[t] = "version" THEN <<118>> ELSE <<108>>)
                 /\ UNCHANGED <<mutex, heap, nat, slots, ungated, doubleFree>>]_vars

\* C16 witness: version() has returned on one thread, which found the mutex
\* poisoned, or license() has returned while another thread holds the mutex
\* inside its native compile.
QueryDespiteGate ==
    \E t, u \in Threads :
        /\ pc[t] = "done" /\ status[t] = "ok"
        /\ \/ op[t] = "version" /\ poisonedAtCall[t] /\ mutex.poisoned
           \/ op[t] = "license" /\ pc[u] = "in_native" /\ mutex.holder = u

\* C17 (as claimed): after a trampoline invocation whose closure returned a
\* text, a buffer of Len(text) + 1 bytes was requested from the native
\* allocator and holds exactly the text followed by one terminator.
BufferSizedToText ==
    slots.reply \in {"ok", "err"} =>
        /\ slots.ptr \in DOMAIN heap
        /\ heap[slots.ptr].size = Len(slots.text) + 1
        /\ Len(heap[slots.ptr].bytes) = heap[slots.ptr].size
        /\ heap[slots.ptr].bytes = Append(slots.text, NUL)

\* C18 (as claimed): the native compile works on exactly the bytes of the
\* input, and the text held after the copy is exactly the bytes of the
\* output buffer up to its terminator.
TextPassedUnchanged ==
    \A t \in Threads :
        /\ (pc[t] = "in_native" /\ mutex.holder = t) => nat.cur = input[t]
        /\ pc[t] = "free" => result[t] = CStrFromPtr(ReadBuf(heap, out[t]))

\* C18 (amended): the native compile works on exactly the bytes of the
\* input; the text held after the copy is the output buffer up to its
\* terminator with every byte that is not valid UTF-8 replaced by U+FFFD,
\* and equals those bytes when all of them are valid.
TextPassedLossy ==
    \A t \in Threads :
        /\ (pc[t] = "in_native" /\ mutex.holder = t) => nat.cur = input[t]
        /\ pc[t] = "free" =>
              LET raw == CStrFromPtr(ReadBuf(heap, out[t]))
              IN  /\ result[t] = ToStringLossy(raw)
                  /\ 255 \notin Range(raw) => result[t] = raw
                  /\ 255 \in Range(raw) =>
                        (IsInfix(<<239, 191, 189>>, result[t])
                         /\ Len(result[t]) = Len(raw) + 2)

\* C18 witness: the output buffer holds a byte that is not valid UTF-8 and
\* the text copied from it holds U+FFFD in its place.
LossyOutputSeen ==
    \E t \in Threads :
        /\ pc[t] = "free"
        /\ 255 \in Range(ReadBuf(heap, out[t]))
        /\ IsInfix(<<239, 191, 189>>, result[t])

\* The replies of the current native compile that were copied into a buffer.
Buffered(acc) == SelectSeq(acc, LAMBDA e : e.kind # "panic")

\* C19: while the thread that holds the mutex is inside the native compile
\* or between its return and the reset, every buffer a trampoline wrote to a
\* slot during that compile is still allocated and holds its reply; a buffer
\* leaves the allocation list only by solidity_free of the output pointer or
\* by the reset that follows the native compile under the same guard.
CallbackBuffersLive ==
    /\ [](\A t \in Threads :
             (pc[t] \in {"in_native", "copy", "free", "reset"} /\ mutex.holder = t) =>
                 /\ \A i \in 1..Len(Buffered(nat.acc)) :
                       /\ i \in DOMAIN heap
                       /\ heap[i].bytes = Append(Buffered(nat.acc)[i].text, NUL)
                 /\ pc[t] \in {"copy", "free"} => out[t] > Len(Buffered(nat.acc))
                 /\ (slots.ptr # NullPtr /\ pc[t] = "in_native") =>
                       slots.ptr \in DOMAIN heap)
    /\ [][\A p \in DOMAIN heap :
             p \notin DOMAIN heap' =>
                 \E t \in Threads :
                     /\ mutex.holder = t
                     /\ \/ pc[t] = "free" /\ pc'[t] = "reset" /\ p = out[t]
                        \/ /\ pc[t] = "reset" /\ pc'[t] = "unlock"
                           /\ trace[t] = <<"acquire", "compile", "copy", "free">>]_vars

\* C19 witness: the output buffer has been released and the buffer of a
\* reply is still allocated, just before the reset.
ReplyBufferUntilReset ==
    \E t \in Threads :
        /\ pc[t] = "reset" /\ mutex.holder = t
        /\ Len(Buffered(nat.acc)) > 0
        /\ 1 \in DOMAIN heap

====
